---- MODULE Spec2Model ----
(***************************************************************************)
(* Model of the hackgt-nfc reader library:                                 *)
(*   src/src/nfc/ndef.rs   NDEF::parse, get_content (byte-record decoder)  *)
(*   src/src/nfc/badge.rs  NFCBadge::send_data, get_user_id, set_buzzer    *)
(*   src/src/nfc.rs        handle_cards (the reader monitor thread)        *)
(* A byte is an integer in 0..255; a Rust String or &str is the sequence of *)
(* its UTF-8 bytes.  A Rust panic is the outcome tag "Panic".              *)
(***************************************************************************)
EXTENDS Integers, Sequences, FiniteSets, TLC

VARIABLES
    \* ---- monitor thread of handle_cards (nfc.rs) ----
    pc,             \* position of the monitor thread in its loop
    ctx,            \* number of contexts established so far (0 = none yet)
    reader_states,  \* the watch list: sequence of [name, event_state]
    readers,        \* the presence map: name -> BOOLEAN, defined on the inserted names
    reader_index,   \* position of the for loop of lines 77-101 in the watch list
    last_error,     \* result of the last list_readers / get_status_change call
    panic_msg,      \* the message of the panic that ended the thread, "" while it runs
    calls,          \* the calls of the two handlers made by the last step, in order
    tap_result,     \* what get_user_id gave the tap handler in this iteration: "None", "Ok", "Err", "Panic"
    prev_tap,       \* per name: handler calls made by the last PRESENT report, -1 once an EMPTY report came
    pair_taps,      \* per name: handler calls made by the last two PRESENT reports with no EMPTY report between
    connects,       \* the ctx.connect calls made by the last step: sequence of [name, share_mode, ok]
    cards,          \* the card connections that are open: the set of the readers connected to
    listed,         \* the names the list_readers call of the last step returned
    awaiting,       \* the names added to the watch list with no PRESENT report processed since
    announced,      \* the names announced with (name, true) and not reported removed since
    \* ---- NDEF decoder called on its own (ndef.rs) ----
    nd_phase,       \* "input" | "parsed" | "content"
    nd_rec,         \* the record description the buffer was laid out from
    nd_lead,        \* number of 0x00 bytes put in front of the buffer
    nd_trail,       \* bytes put after the buffer
    nd_result,      \* result of NDEF::parse
    nd_content,     \* result of NDEF::get_content
    \* ---- card session called on its own (badge.rs) ----
    bg_phase,       \* "input" | "done"
    bg_op,          \* the operation that was called
    bg_apdu,        \* the command bytes handed to card.transmit
    bg_transmit,    \* what card.transmit returned
    bg_result       \* what the operation returned

vars == << pc, ctx, reader_states, readers, reader_index, last_error, panic_msg,
           calls, tap_result, prev_tap, pair_taps, connects, cards, listed, awaiting,
           announced,
           nd_phase, nd_rec, nd_lead, nd_trail, nd_result, nd_content,
           bg_phase, bg_op, bg_apdu, bg_transmit, bg_result >>

monitor_vars == << pc, ctx, reader_states, readers, reader_index, last_error,
                   panic_msg, calls, tap_result, prev_tap, pair_taps,
                   connects, cards, listed, awaiting, announced >>
ndef_vars == << nd_phase, nd_rec, nd_lead, nd_trail, nd_result, nd_content >>
badge_vars == << bg_phase, bg_op, bg_apdu, bg_transmit, bg_result >>

(***************************************************************************)
(* Bounds of the model.                                                    *)
(***************************************************************************)
\* largest number of 0x00 bytes put in front of a buffer
MaxPad == 2
\* longest exhaustively enumerated trailing byte sequence
MaxTail == 2
\* longest exhaustively enumerated raw card response
MaxRaw == 3
\* number of contexts the monitor may establish
MaxCtx == 2
\* largest number of names one list_readers call returns
MaxListed == 2

(***************************************************************************)
(* Byte helpers.                                                           *)
(***************************************************************************)
RECURSIVE Pow2(_)
Pow2(n) == IF n = 0 THEN 1 ELSE 2 * Pow2(n - 1)

\* byte & (1 << n), as in `byte & 1 << n` (<< binds tighter than & in Rust)
BitAnd(byte, n) == ((byte \div Pow2(n)) % 2) * Pow2(n)

\* &v[from..] with 0-based `from`; the caller has checked from <= len
SliceFrom(v, from) == SubSeq(v, from + 1, Len(v))

\* all sequences over S of length 0..n
RECURSIVE SeqsUpTo(_, _)
SeqsUpTo(S, n) ==
    IF n = 0 THEN { <<>> }
    ELSE LET shorter == SeqsUpTo(S, n - 1)
         IN  shorter \cup { Append(s, b) : s \in { t \in shorter : Len(t) = n - 1 }, b \in S }

RECURSIVE Zeros(_)
Zeros(k) == IF k = 0 THEN <<>> ELSE <<0>> \o Zeros(k - 1)

(***************************************************************************)
(* str::from_utf8: TRUE iff the bytes are well-formed UTF-8.               *)
(***************************************************************************)
IsCont(v, p) == p <= Len(v) /\ v[p] \in 128..191

\* length of the well-formed UTF-8 sequence starting at v[p], 0 if there is none
Utf8SeqLen(v, p) ==
    LET b == v[p] IN
    IF b <= 127 THEN 1
    ELSE IF b \in 194..223 THEN (IF IsCont(v, p + 1) THEN 2 ELSE 0)
    ELSE IF b = 224 THEN
        (IF p + 2 <= Len(v) /\ v[p + 1] \in 160..191 /\ IsCont(v, p + 2) THEN 3 ELSE 0)
    ELSE IF b \in (225..236) \cup {238, 239} THEN
        (IF IsCont(v, p + 1) /\ IsCont(v, p + 2) THEN 3 ELSE 0)
    ELSE IF b = 237 THEN
        (IF p + 2 <= Len(v) /\ v[p + 1] \in 128..159 /\ IsCont(v, p + 2) THEN 3 ELSE 0)
    ELSE IF b = 240 THEN
        (IF p + 3 <= Len(v) /\ v[p + 1] \in 144..191 /\ IsCont(v, p + 2) /\ IsCont(v, p + 3)
         THEN 4 ELSE 0)
    ELSE IF b \in 241..243 THEN
        (IF IsCont(v, p + 1) /\ IsCont(v, p + 2) /\ IsCont(v, p + 3) THEN 4 ELSE 0)
    ELSE IF b = 244 THEN
        (IF p + 3 <= Len(v) /\ v[p + 1] \in 128..143 /\ IsCont(v, p + 2) /\ IsCont(v, p + 3)
         THEN 4 ELSE 0)
    ELSE 0

RECURSIVE Utf8From(_, _)
Utf8From(v, p) ==
    IF p > Len(v) THEN TRUE
    ELSE LET n == Utf8SeqLen(v, p)
         IN  IF n = 0 THEN FALSE ELSE Utf8From(v, p + n)

from_utf8_ok(v) == Utf8From(v, 1)

(***************************************************************************)
(* Option<String> and its three outcomes.                                  *)
(***************************************************************************)
Some(s) == [tag |-> "Some", str |-> s]
None == [tag |-> "None", str |-> <<>>]
PanicOpt == [tag |-> "Panic", str |-> <<>>]

(***************************************************************************)
(* ndef.rs: NDEF::parse                                                    *)
(***************************************************************************)
\* the locals of parse before the loop (lines 27-32)
ParseInit ==
    [state |-> "None", data |-> <<>>, data_index |-> 0,
     ndef_type |-> "Unknown", i |-> 0, err |-> ""]

\* Vec::insert(index, element); index <= len always holds here
VecInsert(v, index, element) ==
    SubSeq(v, 1, index) \o <<element>> \o SubSeq(v, index + 1, Len(v))

\* a scan that takes every 0x03 for the start of a message, whatever follows
StepNone_NoLookahead(buffer, st, byte) ==
    IF byte = 0 THEN [st EXCEPT !.i = @ + 1]
    ELSE IF byte = 3
         THEN [st EXCEPT !.i = @ + 1, !.state = "NDEFInitial"]
         ELSE st

\* ParserState::None (lines 36-47)
StepNone(buffer, st, byte) ==
    IF byte = 0 THEN [st EXCEPT !.i = @ + 1]
    ELSE IF byte = 3 /\ Len(buffer) > st.i + 2 /\ buffer[st.i + 2 + 1] = 209
         THEN [st EXCEPT !.i = @ + 1, !.state = "NDEFInitial"]
         ELSE st

\* ParserState::NDEFInitial (lines 48-62)
StepInitial(st, byte) ==
    IF BitAnd(byte, 0) # 1 THEN
        [st EXCEPT !.err = "Only NFC Well Known Records are supported"]
    ELSE IF BitAnd(byte, 4) = 0 THEN
        [st EXCEPT !.err = "Only short records supported currently"]
    ELSE IF BitAnd(byte, 6) = 0 THEN
        [st EXCEPT !.err = "Message must be end message currently"]
    ELSE IF BitAnd(byte, 7) = 0 THEN
        [st EXCEPT !.err = "Message must be beginning message currently"]
    ELSE [st EXCEPT !.state = "NDEFTypeLength"]

\* ParserState::NDEFTypeLength (lines 63-65)
StepTypeLength(st, byte) == [st EXCEPT !.state = "NDEFPayloadLength"]

\* ParserState::NDEFPayloadLength (lines 66-70)
StepPayloadLength(st, byte) ==
    [st EXCEPT !.data = <<>>, !.data_index = 0, !.state = "NDEFRecordType"]

\* ParserState::NDEFRecordType (lines 71-78)
StepRecordType(st, byte) ==
    [st EXCEPT !.ndef_type = IF byte = 84 THEN "Text"
                             ELSE IF byte = 85 THEN "URI"
                             ELSE "Unknown",
               !.state = "NDEFData"]

\* ParserState::NDEFData (lines 79-88)
StepData(st, byte) ==
    IF byte = 254 THEN [st EXCEPT !.state = "None"]
    ELSE [st EXCEPT !.data = VecInsert(st.data, st.data_index, byte),
                    !.data_index = @ + 1]

\* one turn of the while loop (lines 34-90): the match, then i += 1
ParseByte(buffer, st) ==
    LET byte == buffer[st.i + 1]
        after ==
            CASE st.state = "None"              -> StepNone(buffer, st, byte)
              [] st.state = "NDEFInitial"       -> StepInitial(st, byte)
              [] st.state = "NDEFTypeLength"    -> StepTypeLength(st, byte)
              [] st.state = "NDEFPayloadLength" -> StepPayloadLength(st, byte)
              [] st.state = "NDEFRecordType"    -> StepRecordType(st, byte)
              [] st.state = "NDEFData"          -> StepData(st, byte)
    IN  IF after.err # "" THEN after ELSE [after EXCEPT !.i = @ + 1]

\* the while loop (lines 33-91); an Err returns at once
RECURSIVE ParseLoop(_, _)
ParseLoop(buffer, st) ==
    IF st.err # "" \/ ~(st.i < Len(buffer)) THEN st
    ELSE ParseLoop(buffer, ParseByte(buffer, st))

\* NDEF::parse (lines 26-97)
parse(buffer) ==
    LET st == ParseLoop(buffer, ParseInit)
    IN  IF st.err # ""
        THEN [ok |-> FALSE, err |-> st.err, ndef_type |-> "Unknown", data |-> <<>>]
        ELSE [ok |-> TRUE, err |-> "", ndef_type |-> st.ndef_type, data |-> st.data]

(***************************************************************************)
(* ndef.rs: content extraction                                             *)
(***************************************************************************)
\* NDEF::get_protocol (lines 123-163)
get_protocol(identifier) ==
    CASE identifier = 0  -> <<>>
      [] identifier = 1  -> <<104, 116, 116, 112, 58, 47, 47, 119, 119, 119, 46>>          \* "http://www."
      [] identifier = 2  -> <<104, 116, 116, 112, 115, 58, 47, 47, 119, 119, 119, 46>>     \* "https://www."
      [] identifier = 3  -> <<104, 116, 116, 112, 58, 47, 47>>                             \* "http://"
      [] identifier = 4  -> <<104, 116, 116, 112, 115, 58, 47, 47>>                        \* "https://"
      [] identifier = 5  -> <<116, 101, 108, 58>>                                          \* "tel:"
      [] identifier = 6  -> <<109, 97, 105, 108, 116, 111, 58>>                            \* "mailto:"
      [] identifier = 7  -> <<102, 116, 112, 58, 47, 47, 97, 110, 111, 110, 121, 109, 111, 117, 115,
                              58, 97, 110, 111, 110, 121, 109, 111, 117, 115, 64>>         \* "ftp://anonymous:anonymous@"
      [] identifier = 8  -> <<102, 116, 112, 58, 47, 47, 102, 116, 112, 46>>               \* "ftp://ftp."
      [] identifier = 9  -> <<102, 116, 112, 115, 58, 47, 47>>                             \* "ftps://"
      [] identifier = 10 -> <<115, 102, 116, 112, 58, 47, 47>>                             \* "sftp://"
      [] identifier = 11 -> <<115, 109, 98, 58, 47, 47>>                                   \* "smb://"
      [] identifier = 12 -> <<110, 102, 115, 58, 47, 47>>                                  \* "nfs://"
      [] identifier = 13 -> <<102, 116, 112, 58, 47, 47>>                                  \* "ftp://"
      [] identifier = 14 -> <<100, 97, 118, 58, 47, 47>>                                   \* "dav://"
      [] identifier = 15 -> <<110, 101, 119, 115, 58>>                                     \* "news:"
      [] identifier = 16 -> <<116, 101, 108, 110, 101, 116, 58, 47, 47>>                   \* "telnet://"
      [] identifier = 17 -> <<105, 109, 97, 112, 58>>                                      \* "imap:"
      [] identifier = 18 -> <<114, 116, 115, 112, 58, 47, 47>>                             \* "rtsp://"
      [] identifier = 19 -> <<117, 114, 110, 58>>                                          \* "urn:"
      [] identifier = 20 -> <<112, 111, 112, 58>>                                          \* "pop:"
      [] identifier = 21 -> <<115, 105, 112, 58>>                                          \* "sip:"
      [] identifier = 22 -> <<115, 105, 112, 115, 58>>                                     \* "sips:"
      [] identifier = 23 -> <<116, 102, 116, 112, 58>>                                     \* "tftp:"
      [] identifier = 24 -> <<98, 116, 115, 112, 112, 58, 47, 47>>                         \* "btspp://"
      [] identifier = 25 -> <<98, 116, 108, 50, 99, 97, 112, 58, 47, 47>>                  \* "btl2cap://"
      [] identifier = 26 -> <<98, 116, 103, 111, 101, 112, 58, 47, 47>>                    \* "btgoep://"
      [] identifier = 27 -> <<116, 99, 112, 111, 98, 101, 120, 58, 47, 47>>                \* "tcpobex://"
      [] identifier = 28 -> <<105, 114, 100, 97, 111, 98, 101, 120, 58, 47, 47>>           \* "irdaobex://"
      [] identifier = 29 -> <<102, 105, 108, 101, 58, 47, 47>>                             \* "file://"
      [] identifier = 30 -> <<117, 114, 110, 58, 32, 101, 112, 99, 58, 32, 105, 100, 58>>  \* "urn: epc: id:"
      [] identifier = 31 -> <<117, 114, 110, 58, 32, 101, 112, 99, 58, 32, 116, 97, 103, 58>>  \* "urn: epc: tag:"
      [] identifier = 32 -> <<117, 114, 110, 58, 32, 101, 112, 99, 58, 32, 112, 97, 116, 58>>  \* "urn: epc: pat:"
      [] identifier = 33 -> <<117, 114, 110, 58, 32, 101, 112, 99, 58, 32, 114, 97, 119, 58>>  \* "urn: epc: raw:"
      [] identifier = 34 -> <<117, 114, 110, 58, 32, 101, 112, 99, 58>>                    \* "urn: epc:"
      [] identifier = 35 -> <<117, 114, 110, 58, 32, 110, 102, 99, 58>>                    \* "urn: nfc:"
      [] OTHER -> <<>>

\* NDEF::get_uri (lines 99-105)
get_uri(self) ==
    IF Len(self.data) < 2 \/ self.ndef_type # "URI" THEN None
    ELSE LET url == SliceFrom(self.data, 1)
         IN  IF from_utf8_ok(url) THEN Some(get_protocol(self.data[1]) \o url) ELSE None

\* NDEF::get_text (lines 107-113); slicing past the end of data panics
get_text(self) ==
    IF Len(self.data) < 4 \/ self.ndef_type # "Text" THEN None
    ELSE LET language_code_length == self.data[1]
         IN  IF 1 + language_code_length > Len(self.data) THEN PanicOpt
             ELSE LET text == SliceFrom(self.data, 1 + language_code_length)
                  IN  IF from_utf8_ok(text) THEN Some(text) ELSE None

\* NDEF::get_content (lines 115-121)
get_content(self) ==
    CASE self.ndef_type = "Text" -> get_text(self)
      [] self.ndef_type = "URI"  -> get_uri(self)
      [] OTHER -> None

(***************************************************************************)
(* The url crate as badge.rs uses it (line 89: Url::parse, line 91:        *)
(* query_pairs), on the bytes of the string.  Url::parse follows the URL   *)
(* Standard's parser without a base URL: only the scheme and the authority *)
(* can make it fail, the path, the query and the fragment never do.  The   *)
(* host of a special scheme goes through IDNA processing, whose answer for *)
(* a label that is not ASCII, or that is Punycode ("xn--"), depends on the *)
(* Unicode tables of the IDNA back end the build links; the repository     *)
(* pins none.  The operators take that answer as the parameter idna: TRUE  *)
(* when the back end takes the labels of the host for valid, FALSE when it *)
(* refuses them.  What every back end refuses is refused whatever idna is: *)
(* a host that is not UTF-8 once percent-decoded, U+FFFD, a Punycode label *)
(* that does not decode or decodes to no character beyond ASCII.  Integers *)
(* of the Punycode decoder are u32 in the code; the model computes them in *)
(* the integers of TLC, which hold every insertion index of a label of up  *)
(* to 1926 characters.                                                     *)
(***************************************************************************)
IsAlpha(b) == b \in (65..90) \cup (97..122)
IsDigit(b) == b \in 48..57
IsHexDigit(b) == b \in (48..57) \cup (65..70) \cup (97..102)
HexValue(b) == IF b \in 48..57 THEN b - 48 ELSE IF b \in 65..70 THEN b - 55 ELSE b - 87
ToLower(b) == IF b \in 65..90 THEN b + 32 ELSE b

\* position of the first byte of v at or after p that is in S, 0 if none
RECURSIVE FindFirst(_, _, _)
FindFirst(v, p, S) ==
    IF p > Len(v) THEN 0
    ELSE IF v[p] \in S THEN p
    ELSE FindFirst(v, p + 1, S)

\* position of the last byte of v that is in S, 0 if none
RECURSIVE FindLast(_, _, _)
FindLast(v, p, S) ==
    IF p < 1 THEN 0
    ELSE IF v[p] \in S THEN p
    ELSE FindLast(v, p - 1, S)

\* v.split(sep): the pieces of v between the bytes sep
RECURSIVE Split(_, _)
Split(v, sep) ==
    LET p == FindFirst(v, 1, {sep})
    IN  IF p = 0 THEN << v >>
        ELSE << SubSeq(v, 1, p - 1) >> \o Split(SubSeq(v, p + 1, Len(v)), sep)

\* the input without leading and trailing C0 control or space bytes
RECURSIVE TrimC0(_)
TrimC0(v) ==
    IF v = <<>> THEN v
    ELSE IF v[1] <= 32 THEN TrimC0(Tail(v))
    ELSE IF v[Len(v)] <= 32 THEN TrimC0(SubSeq(v, 1, Len(v) - 1))
    ELSE v

\* the parser's input: every tab, LF and CR inside the string is skipped
RemoveTabNewline(v) == SelectSeq(v, LAMBDA b : b \notin {9, 10, 13})

\* length of the scheme of v (the bytes before its first ':'), 0 if v has no scheme
SchemeLen(v) ==
    LET colon == FindFirst(v, 1, {58})
    IN  IF colon <= 1 THEN 0
        ELSE IF IsAlpha(v[1])
                /\ \A p \in 2..(colon - 1) :
                      IsAlpha(v[p]) \/ IsDigit(v[p]) \/ v[p] \in {43, 45, 46}
             THEN colon - 1
             ELSE 0

\* "http", "https", "ws", "wss", "ftp": the schemes that need a host
HostSchemes ==
    { <<104, 116, 116, 112>>, <<104, 116, 116, 112, 115>>, <<119, 115>>,
      <<119, 115, 115>>, <<102, 116, 112>> }

\* "file", the special scheme whose host may be empty
FileScheme == <<102, 105, 108, 101>>

\* the bytes of v from p on without the leading '/' and '\' bytes
RECURSIVE SkipSlashes(_, _)
SkipSlashes(v, p) ==
    IF p <= Len(v) /\ v[p] \in {47, 92} THEN SkipSlashes(v, p + 1)
    ELSE SubSeq(v, p, Len(v))

\* the query of what follows the scheme: after the first '?', up to a '#'
QueryOf(rest) ==
    LET q == FindFirst(rest, 1, {63, 35})
    IN  IF q = 0 \/ rest[q] = 35 THEN <<>>
        ELSE LET h == FindFirst(rest, q + 1, {35})
             IN  SubSeq(rest, q + 1, IF h = 0 THEN Len(rest) ELSE h - 1)

\* percent_decode: every '%' followed by two hex digits is the byte they name
RECURSIVE percent_decode(_)
percent_decode(v) ==
    IF v = <<>> THEN <<>>
    ELSE IF v[1] = 37 /\ Len(v) >= 3 /\ IsHexDigit(v[2]) /\ IsHexDigit(v[3])
         THEN << 16 * HexValue(v[2]) + HexValue(v[3]) >>
                  \o percent_decode(SubSeq(v, 4, Len(v)))
         ELSE << v[1] >> \o percent_decode(Tail(v))

\* the second byte that may follow the lead byte b of a 3- or 4-byte sequence
SecondOk(b, c) ==
    \/ b = 224 /\ c \in 160..191
    \/ b \in (225..236) \cup {238, 239} /\ c \in 128..191
    \/ b = 237 /\ c \in 128..159
    \/ b = 240 /\ c \in 144..191
    \/ b \in 241..243 /\ c \in 128..191
    \/ b = 244 /\ c \in 128..143

\* length of the ill-formed sequence at v[p] that from_utf8_lossy replaces by
\* one U+FFFD: the lead byte and the bytes after it that were still acceptable
InvalidLen(v, p) ==
    LET b == v[p] IN
    IF b \in 224..239
    THEN IF p + 1 <= Len(v) /\ SecondOk(b, v[p + 1]) THEN 2 ELSE 1
    ELSE IF b \in 240..244
    THEN IF ~(p + 1 <= Len(v) /\ SecondOk(b, v[p + 1])) THEN 1
         ELSE IF ~IsCont(v, p + 2) THEN 2
         ELSE 3
    ELSE 1

\* String::from_utf8_lossy, from position p on
RECURSIVE decode_utf8_lossy(_, _)
decode_utf8_lossy(v, p) ==
    IF p > Len(v) THEN <<>>
    ELSE LET n == Utf8SeqLen(v, p) IN
         IF n > 0 THEN SubSeq(v, p, p + n - 1) \o decode_utf8_lossy(v, p + n)
         ELSE << 239, 191, 189 >> \o decode_utf8_lossy(v, p + InvalidLen(v, p))

\* parse_ipv4number: the number as [hi, lo] with value hi * 65536 + lo, hi
\* stopping at 65536 for every value that does not fit 32 bits; valid is FALSE
\* for a part that is no number
RECURSIVE RadixValue(_, _, _, _)
RadixValue(digits, r, hi, lo) ==
    IF digits = <<>> THEN [hi |-> hi, lo |-> lo]
    ELSE LET low == lo * r + HexValue(digits[1])
             high == hi * r + (low \div 65536)
         IN  RadixValue(Tail(digits), r, IF high > 65536 THEN 65536 ELSE high,
                        low % 65536)

parse_ipv4number(part) ==
    LET hex == Len(part) >= 2 /\ part[1] = 48 /\ part[2] \in {120, 88}
        oct == ~hex /\ Len(part) >= 2 /\ part[1] = 48
        r == IF hex THEN 16 ELSE IF oct THEN 8 ELSE 10
        digits == IF hex THEN SubSeq(part, 3, Len(part))
                  ELSE IF oct THEN Tail(part) ELSE part
        valid == /\ part # <<>>
                 /\ \A k \in 1..Len(digits) :
                       CASE r = 8  -> digits[k] \in 48..55
                         [] r = 10 -> IsDigit(digits[k])
                         [] r = 16 -> IsHexDigit(digits[k])
        n == IF valid THEN RadixValue(digits, r, 0, 0) ELSE [hi |-> 0, lo |-> 0]
    IN  [valid |-> valid, overflow |-> n.hi >= 65536, hi |-> n.hi, lo |-> n.lo]

\* the parts of a domain between its dots, without an empty last part
Ipv4Parts(domain) ==
    LET parts == Split(domain, 46)
    IN  IF parts[Len(parts)] = <<>> THEN SubSeq(parts, 1, Len(parts) - 1) ELSE parts

\* ends_in_a_number: the last part of the domain is a number
ends_in_a_number(domain) ==
    LET parts == Ipv4Parts(domain)
    IN  /\ parts # <<>>
        /\ LET last == parts[Len(parts)]
           IN  \/ last # <<>> /\ \A k \in 1..Len(last) : IsDigit(last[k])
               \/ parse_ipv4number(last).valid

\* parse_ipv4addr succeeds: at most 4 parts, all numbers, all but the last at
\* most 255, and the last below 256 ^ (5 - number of parts)
parse_ipv4addr_ok(domain) ==
    LET parts == Ipv4Parts(domain)
        n == Len(parts)
        num(k) == parse_ipv4number(parts[k])
    IN  /\ n \in 1..4
        /\ \A k \in 1..n : num(k).valid /\ ~num(k).overflow
        /\ \A k \in 1..(n - 1) : num(k).hi = 0 /\ num(k).lo <= 255
        /\ CASE n = 1 -> TRUE
             [] n = 2 -> num(n).hi < 256
             [] n = 3 -> num(n).hi = 0
             [] n = 4 -> num(n).hi = 0 /\ num(n).lo <= 255

\* the dotted IPv4 ending of an IPv6 address, from position i on: four numbers
\* of at most 255 without leading zero, with dots between them
RECURSIVE Ipv6TailOk(_, _, _)
Ipv6TailOk(s, i, seen) ==
    IF i > Len(s) THEN seen = 4
    ELSE LET j == IF seen > 0 THEN i + 1 ELSE i
             stop == FindFirst(s, j, (0..255) \ (48..57))
             last == IF stop = 0 THEN Len(s) ELSE stop - 1
             piece == SubSeq(s, j, last)
         IN  /\ seen > 0 => (seen < 4 /\ s[i] = 46)
             /\ piece # <<>>
             /\ Len(piece) > 1 => piece[1] # 48
             /\ Len(piece) <= 3
             /\ LET n == RadixValue(piece, 10, 0, 0) IN n.lo <= 255
             /\ Ipv6TailOk(s, last + 1, seen + 1)

\* parse_ipv6addr succeeds on s, read from position i on with pieces
\* 16-bit pieces read so far and compress telling whether "::" was seen
RECURSIVE Ipv6From(_, _, _, _)
Ipv6From(s, i, pieces, compress) ==
    IF i > Len(s) THEN (compress \/ pieces = 8)
    ELSE IF pieces = 8 THEN FALSE
    ELSE IF s[i] = 58 THEN ~compress /\ Ipv6From(s, i + 1, pieces + 1, TRUE)
    ELSE LET stop == FindFirst(s, i, (0..255) \ ((48..57) \cup (65..70) \cup (97..102)))
             endhex == IF stop = 0 THEN Len(s) + 1 ELSE stop
             next == IF endhex > i + 4 THEN i + 4 ELSE endhex
         IN  IF next > Len(s) THEN Ipv6From(s, next, pieces + 1, compress)
             ELSE IF s[next] = 46
                  THEN next # i /\ pieces <= 6 /\ Ipv6TailOk(s, i, 0)
                       /\ (compress \/ pieces + 2 = 8)
             ELSE IF s[next] = 58
                  THEN next + 1 <= Len(s) /\ Ipv6From(s, next + 1, pieces + 1, compress)
             ELSE FALSE

parse_ipv6addr_ok(s) ==
    IF s # <<>> /\ s[1] = 58
    THEN Len(s) >= 2 /\ s[2] = 58 /\ Ipv6From(s, 3, 1, TRUE)
    ELSE Ipv6From(s, 1, 0, FALSE)

\* a host in brackets is an IPv6 address
BracketHostOk(h) == h[Len(h)] = 93 /\ parse_ipv6addr_ok(SubSeq(h, 2, Len(h) - 1))

\* the bytes no host may hold, and those no domain may hold
InvalidHostChars == {0, 9, 10, 13, 32, 35, 47, 58, 60, 62, 63, 64, 91, 92, 93, 94, 124}
InvalidDomainChars == (0..32) \cup {35, 37, 47, 58, 60, 62, 63, 64, 91, 92, 93, 94, 124, 127}

\* the value of a Punycode digit: 'a'-'z' are 0..25, '0'-'9' are 26..35, any
\* other byte is none (-1)
punycode_digit(b) ==
    IF b \in 97..122 THEN b - 97 ELSE IF b \in 48..57 THEN b - 22 ELSE -1

\* the bias adaptation of Punycode (RFC 3492 section 6.1)
RECURSIVE adapt_from(_, _)
adapt_from(delta, k) ==
    IF delta > 455 THEN adapt_from(delta \div 35, k + 36)
    ELSE k + (36 * delta) \div (delta + 38)

adapt(delta, num_points, first_time) ==
    LET d == delta \div (IF first_time THEN 700 ELSE 2)
    IN  adapt_from(d + d \div num_points, 0)

\* u32::MAX / m, for the test that weight * m does not overflow
u32_max_div(m) == (65535 \div m) * 65536 + ((65535 % m) * 65536 + 65535) \div m

\* the Punycode decoder accepts the digits of v from position p on; length is
\* the number of characters decoded so far, n the last code point, i the
\* insertion index being read, previous_i its value when the integer began,
\* weight and k the weight and the threshold position of the next digit.
\* The decoder refuses a digit that is none, an index or a weight beyond u32,
\* digits that end inside an integer, and a code point that char::from_u32
\* refuses.  An index beyond limit names a code point beyond char::MAX
\* (1114111): whatever digits follow, the decoder refuses, there or later, so
\* the index is refused here, and a weight beyond limit, which only a digit 0
\* can follow, is kept as limit + 1
RECURSIVE punycode_from(_, _, _, _, _, _, _, _, _)
punycode_from(v, p, length, n, i, previous_i, weight, k, bias) ==
    IF p > Len(v) THEN k = 36
    ELSE LET digit == punycode_digit(v[p])
             t == IF k <= bias THEN 1 ELSE IF k >= bias + 26 THEN 26 ELSE k - bias
             limit == (1114111 - n) * (length + 1) + length
         IN  IF digit < 0 \/ digit > (limit - i) \div weight THEN FALSE
             ELSE LET j == i + digit * weight IN
                  IF digit >= t
                  THEN /\ weight <= u32_max_div(36 - t)
                       /\ punycode_from(v, p + 1, length, n, j, previous_i,
                                        IF weight > limit \div (36 - t) THEN limit + 1
                                        ELSE weight * (36 - t),
                                        k + 36, bias)
                  ELSE LET code_point == n + j \div (length + 1)
                           at == j % (length + 1)
                       IN  /\ code_point \notin 55296..57343
                           /\ punycode_from(v, p + 1, length + 1, code_point, at + 1,
                                            at + 1, 1, 36,
                                            adapt(j - previous_i, length + 1,
                                                  previous_i = 0))

\* a label begins "xn--"
IsPunycode(label) == Len(label) >= 4 /\ SubSeq(label, 1, 4) = <<120, 110, 45, 45>>

\* the Punycode label decodes, and to something beyond ASCII: the ASCII
\* characters come before its last '-', the digits after it; a '-' that
\* begins the label counts as a digit, and is none
punycode_decode_ok(label) ==
    LET input == SubSeq(label, 5, Len(label))
        position == FindLast(input, Len(input), {45})
        base == SubSeq(input, 1, position - 1)
        digits == IF position > 1 THEN SubSeq(input, position + 1, Len(input)) ELSE input
    IN  /\ digits # <<>>
        /\ \A q \in 1..Len(base) : base[q] < 128
        /\ punycode_from(digits, 1, Len(base), 128, 0, 0, 1, 36, 72)

\* domain_to_ascii succeeds on the domain, idna being what the back end says
\* of its non-ASCII and Punycode labels
domain_to_ascii_ok(domain, idna) ==
    LET labels == Split(domain, 46)
        lossy == decode_utf8_lossy(domain, 1)
    IN  /\ \A q \in 1..(Len(lossy) - 2) : SubSeq(lossy, q, q + 2) # <<239, 191, 189>>
        /\ \A q \in 1..Len(labels) : IsPunycode(labels[q]) => punycode_decode_ok(labels[q])
        /\ (\/ \E q \in 1..Len(domain) : domain[q] >= 128
            \/ \E q \in 1..Len(labels) : IsPunycode(labels[q])) => idna

\* Host::parse succeeds: the host of a special scheme
HostParseOk(h, idna) ==
    IF h # <<>> /\ h[1] = 91 THEN BracketHostOk(h)
    ELSE LET decoded == percent_decode(h)
             domain == [k \in 1..Len(decoded) |-> ToLower(decoded[k])]
         IN  /\ domain_to_ascii_ok(domain, idna)
             /\ domain # <<>>
             /\ \A k \in 1..Len(domain) : domain[k] \notin InvalidDomainChars
             /\ ends_in_a_number(domain) => parse_ipv4addr_ok(domain)

\* Host::parse_opaque succeeds: the host of a scheme that is not special
parse_opaque_ok(h) ==
    IF h # <<>> /\ h[1] = 91 THEN BracketHostOk(h)
    ELSE \A k \in 1..Len(h) : h[k] \notin InvalidHostChars

\* position of the first ':' of h outside square brackets, 0 if none
RECURSIVE PortColon(_, _, _)
PortColon(h, p, inside) ==
    IF p > Len(h) THEN 0
    ELSE IF h[p] = 58 /\ ~inside THEN p
    ELSE PortColon(h, p + 1, IF h[p] = 91 THEN TRUE ELSE IF h[p] = 93 THEN FALSE ELSE inside)

\* parse_port succeeds: digits up to the end or a '\', and at most 65535
RECURSIVE parse_port_ok(_, _)
parse_port_ok(v, port) ==
    IF v = <<>> \/ v[1] = 92 THEN TRUE
    ELSE /\ IsDigit(v[1])
         /\ port * 10 + (v[1] - 48) <= 65535
         /\ parse_port_ok(Tail(v), port * 10 + (v[1] - 48))

\* after_double_slash succeeds: the authority of rest (userinfo up to the last
\* '@', host, port) is well formed; an '@' that is the whole authority and has
\* the path, the query or the fragment right after it is refused
AuthorityOk(rest, special, idna) ==
    LET stop == FindFirst(rest, 1, IF special THEN {47, 92, 63, 35} ELSE {47, 63, 35})
        auth == IF stop = 0 THEN rest ELSE SubSeq(rest, 1, stop - 1)
        at == FindLast(auth, Len(auth), {64})
        userinfo == SubSeq(auth, 1, at - 1)
        has_authority == userinfo \notin { <<>>, <<58>> }
        hostport == SubSeq(auth, at + 1, Len(auth))
        colon == PortColon(hostport, 1, FALSE)
        host == IF colon = 0 THEN hostport ELSE SubSeq(hostport, 1, colon - 1)
    IN  /\ ~(auth = <<64>> /\ stop # 0)
        /\ IF special THEN host # <<>> /\ HostParseOk(host, idna)
           ELSE parse_opaque_ok(host)
        /\ host = <<>> => (colon = 0 /\ ~has_authority)
        /\ colon # 0 => parse_port_ok(SubSeq(hostport, colon + 1, Len(hostport)), 0)

\* is_windows_drive_letter: a letter and ':' or '|'
is_windows_drive_letter(h) == Len(h) = 2 /\ IsAlpha(h[1]) /\ h[2] \in {58, 124}

\* parse_file succeeds: after "file:" and two slashes comes a host that is
\* empty, a drive letter or a valid host
FileOk(rest, idna) ==
    IF Len(rest) >= 2 /\ rest[1] \in {47, 92} /\ rest[2] \in {47, 92}
    THEN LET after == SubSeq(rest, 3, Len(rest))
             stop == FindFirst(after, 1, {47, 92, 63, 35})
             host == IF stop = 0 THEN after ELSE SubSeq(after, 1, stop - 1)
         IN  host = <<>> \/ is_windows_drive_letter(host) \/ HostParseOk(host, idna)
    ELSE TRUE

\* Url::parse(&url).ok(): [ok, query]
UrlParse(input, idna) ==
    LET v == RemoveTabNewline(TrimC0(input))
        n == SchemeLen(v)
    IN  IF n = 0 THEN [ok |-> FALSE, query |-> <<>>]
        ELSE LET scheme == [p \in 1..n |-> ToLower(v[p])]
                 rest == SubSeq(v, n + 2, Len(v))
                 ok == IF scheme \in HostSchemes
                       THEN AuthorityOk(SkipSlashes(v, n + 2), TRUE, idna)
                       ELSE IF scheme = FileScheme THEN FileOk(rest, idna)
                       ELSE IF Len(rest) >= 2 /\ rest[1] = 47 /\ rest[2] = 47
                       THEN AuthorityOk(SubSeq(rest, 3, Len(rest)), FALSE, idna)
                       ELSE TRUE
             IN  IF ok THEN [ok |-> TRUE, query |-> QueryOf(rest)]
                 ELSE [ok |-> FALSE, query |-> <<>>]

\* replace_plus of form_urlencoded: '+' is a space
DecodePlus(v) == [p \in 1..Len(v) |-> IF v[p] = 43 THEN 32 ELSE v[p]]

\* decode of form_urlencoded: a name or value of the query as query_pairs
\* yields it
FormDecode(v) == decode_utf8_lossy(percent_decode(DecodePlus(v)), 1)

\* "user"
UserKey == <<117, 115, 101, 114>>

\* the for loop over url.query_pairs() (badge.rs lines 91-97): the value of the
\* first pair whose key matches Cow::Borrowed("user").  query_pairs yields a
\* borrowed key only when decoding left it as it was written, so a key that
\* merely decodes to "user" ("us%65r") is passed over; the value is decoded
RECURSIVE FindUser(_)
FindUser(query) ==
    IF query = <<>> THEN [found |-> FALSE, value |-> <<>>]
    ELSE LET amp == FindFirst(query, 1, {38})
             pair == IF amp = 0 THEN query ELSE SubSeq(query, 1, amp - 1)
             rest == IF amp = 0 THEN <<>> ELSE SubSeq(query, amp + 1, Len(query))
             eq == FindFirst(pair, 1, {61})
             key == IF eq = 0 THEN pair ELSE SubSeq(pair, 1, eq - 1)
             value == IF eq = 0 THEN <<>> ELSE SubSeq(pair, eq + 1, Len(pair))
         IN  IF key = UserKey
             THEN [found |-> TRUE, value |-> FormDecode(value)]
             ELSE FindUser(rest)

(***************************************************************************)
(* badge.rs: the card session                                              *)
(***************************************************************************)
\* Result<_, Error>: Ok carries bytes (and a status), Err carries its kind
Ok(bytes, status) ==
    [tag |-> "Ok", kind |-> "", msg |-> "", bytes |-> bytes, status |-> status]
ErrPCSC(name) ==
    [tag |-> "Err", kind |-> "PCSC", msg |-> name, bytes |-> <<>>, status |-> <<>>]
ErrResponse(status) ==
    [tag |-> "Err", kind |-> "Response", msg |-> "", bytes |-> <<>>, status |-> status]
ErrMessage(msg) ==
    [tag |-> "Err", kind |-> "Message", msg |-> msg, bytes |-> <<>>, status |-> <<>>]
Panic ==
    [tag |-> "Panic", kind |-> "", msg |-> "", bytes |-> <<>>, status |-> <<>>]
NoResult ==
    [tag |-> "None", kind |-> "", msg |-> "", bytes |-> <<>>, status |-> <<>>]

\* what card.transmit returns: a transport error or the response bytes
TransmitErr(name) == [ok |-> FALSE, err |-> name, rapdu |-> <<>>]
TransmitOk(rapdu) == [ok |-> TRUE, err |-> "", rapdu |-> rapdu]

\* a send_data that looks at the first status byte only
send_data_first_byte(transmit) ==
    IF ~transmit.ok THEN ErrPCSC(transmit.err)
    ELSE LET rapdu == transmit.rapdu IN
         IF Len(rapdu) < 2 THEN ErrPCSC("InvalidValue")
         ELSE LET status == << rapdu[Len(rapdu) - 1], rapdu[Len(rapdu)] >>
                  data == SubSeq(rapdu, 1, Len(rapdu) - 2)
              IN  IF status[1] = 144 THEN Ok(data, status) ELSE ErrResponse(status)

\* NFCBadge::send_data (lines 107-127), given what transmit returned
send_data(transmit) ==
    IF ~transmit.ok THEN ErrPCSC(transmit.err)
    ELSE LET rapdu == transmit.rapdu IN
         IF Len(rapdu) < 2 THEN ErrPCSC("InvalidValue")
         ELSE LET status == << rapdu[Len(rapdu) - 1], rapdu[Len(rapdu)] >>
                  data == SubSeq(rapdu, 1, Len(rapdu) - 2)
              IN  IF status[1] = 144 /\ status[2] = 0
                  THEN Ok(data, status)
                  ELSE ErrResponse(status)

\* the pseudo-APDU of the fast read (lines 78-80)
START_PAGE == 4
END_PAGE == 39
FastReadApdu == <<255, 0, 0, 0, 5, 212, 66, 58, START_PAGE, END_PAGE>>

\* the buzzer APDU (lines 101-102)
BuzzerApdu(enabled) == <<255, 0, 82, IF enabled THEN 255 ELSE 0, 0>>

\* the expected echo of InCommunicateThru plus the success status (line 83)
Echo == <<213, 67, 0>>

\* NFCBadge::get_user_id (lines 54-98), given what transmit returned and what
\* the IDNA back end of the build says of the host of the URL;
\* &response.data[0..3] panics on data shorter than 3 bytes
get_user_id(transmit, idna) ==
    LET response == send_data(transmit) IN
    IF response.tag # "Ok" THEN response
    ELSE IF Len(response.bytes) < 3 THEN Panic
    ELSE IF SubSeq(response.bytes, 1, 3) # Echo THEN ErrMessage("Invalid PN532 response")
    ELSE LET message == parse(SliceFrom(response.bytes, 3)) IN
         IF ~message.ok THEN ErrMessage(message.err)
         ELSE LET content == get_content(message) IN
              IF content.tag = "Panic" THEN Panic
              ELSE IF content.tag = "None" THEN ErrMessage("NDEF message not URL")
              ELSE LET url == UrlParse(content.str, idna) IN
                   IF ~url.ok THEN ErrMessage("Invalid URL")
                   ELSE LET user == FindUser(url.query) IN
                        IF user.found THEN Ok(user.value, <<>>)
                        ELSE ErrMessage("URL did not contain user ID")

\* NFCBadge::set_buzzer (lines 100-105), given what transmit returned
set_buzzer(enabled, transmit) ==
    LET response == send_data(transmit) IN
    IF response.tag # "Ok" THEN response
    ELSE Ok(<<IF enabled THEN 1 ELSE 0>>, <<>>)

(***************************************************************************)
(* Tag dumps the decoder is run on.  A record description                  *)
(* [pre, hdr, type, payload] is laid out the way the dumps of              *)
(* tests::parse_uri (ndef.rs lines 175, 177) are: leading bytes, the NDEF  *)
(* message TLV (0x03, length), the record header, type length 1, payload   *)
(* length, type byte, payload, 0xFE.                                       *)
(***************************************************************************)
\* 0x04 "live.hack.gt?user=7dd00021-89fd-49f1-9c17-bd0ba7dcf97e" (ndef.rs line 175)
UriLive ==
    <<4, 108, 105, 118, 101, 46, 104, 97, 99, 107, 46, 103, 116, 63, 117, 115, 101,
      114, 61, 55, 100, 100, 48, 48, 48, 50, 49, 45, 56, 57, 102, 100, 45, 52, 57,
      102, 49, 45, 57, 99, 49, 55, 45, 98, 100, 48, 98, 97, 55, 100, 99, 102, 57, 55, 101>>
\* 0x04 "a.b?user=7"
UriShort == <<4, 97, 46, 98, 63, 117, 115, 101, 114, 61, 55>>
\* 0x04 "a.b?x=7"
UriNoUser == <<4, 97, 46, 98, 63, 120, 61, 55>>
\* 0x02 "en" "hello"
TextHello == <<2, 101, 110, 104, 101, 108, 108, 111>>
\* 0x02 "en" "https://a.b?user=7"
TextUrl ==
    <<2, 101, 110, 104, 116, 116, 112, 115, 58, 47, 47, 97, 46, 98, 63, 117, 115,
      101, 114, 61, 55>>

Payloads ==
    { UriLive, UriShort, UriNoUser, TextHello, TextUrl,
      <<35, 120>>,             \* 0x23 "x"
      <<1, 97>>,               \* 0x01 "a"
      <<6, 97>>,               \* 0x06 "a"
      <<36, 97>>,              \* 0x24 "a": the first code above the table
      <<255, 97, 98, 99>>,     \* 0xFF "abc"
      <<4>>,                   \* a code and nothing else
      <<4, 195>>,              \* 0x04 and a truncated UTF-8 sequence
      <<4, 195, 169>>,         \* 0x04 and U+00E9
      <<2, 101, 110>>,         \* 0x02 "en"
      <<4, 101, 110, 104>>,    \* 0x04 "enh": language code length 4 in 4 bytes
      <<3, 97, 98, 99>>,       \* 0x03 "abc": the language code fills the payload
      <<2, 101, 110, 255>> }   \* 0x02 "en" and a byte that is not UTF-8

\* the bytes before the NDEF TLV in the dumps of tests::parse_uri: a lock control TLV
LockTlv == <<1, 3, 160, 12, 52>>
Preambles == { <<>>, LockTlv }

\* 0xD1, and 0xD1 with SR, ME, MB or TNF bit 0 cleared
HeaderD1 == 209
Headers == { HeaderD1, 193, 145, 81, 208 }

\* 'T', 'U', and a type that is neither
TypeText == 84
TypeUri == 85
Types == { TypeText, TypeUri, 0 }

Records ==
    { [pre |-> pre, hdr |-> HeaderD1, type |-> ty, payload |-> pl] :
        pre \in Preambles, ty \in Types, pl \in Payloads }
    \cup
    { [pre |-> pre, hdr |-> h, type |-> TypeUri, payload |-> UriShort] :
        pre \in Preambles, h \in Headers }

Layout(rec) ==
    rec.pre \o << 3, Len(rec.payload) + 4, rec.hdr, 1, Len(rec.payload), rec.type >>
            \o rec.payload \o << 254 >>

\* the 77 bytes 0x00 after the terminator in the first dump of tests::parse_uri
TestTrail == Zeros(77)
\* trailing bytes: all short ones over 0x00, 0x03, 0xD1, the test's padding, a
\* second lock control TLV, the start of a second message, a second message
Trails ==
    SeqsUpTo({0, 3, 209}, MaxTail)
    \cup { TestTrail, LockTlv, <<3, 0, 209, 1, 0>>, <<3, 5, 209, 1, 1, 84, 65, 254>> }

\* the buffer handed to NDEF::parse
NdefBuffer == Zeros(nd_lead) \o Layout(nd_rec) \o nd_trail

NoParse == [ok |-> TRUE, err |-> "", ndef_type |-> "Unknown", data |-> <<>>]

(***************************************************************************)
(* Idle values of the three parts, for the specifications that run one.    *)
(***************************************************************************)
EmptyMap == [n \in {} |-> FALSE]
MonitorIdle ==
    /\ pc = "idle" /\ ctx = 0 /\ reader_states = <<>> /\ readers = EmptyMap
    /\ reader_index = 0 /\ last_error = "" /\ panic_msg = "" /\ calls = <<>>
    /\ tap_result = "None" /\ prev_tap = EmptyMap /\ pair_taps = EmptyMap
    /\ connects = <<>> /\ cards = {} /\ listed = <<>> /\ awaiting = {}
    /\ announced = {}
NdefIdle ==
    /\ nd_phase = "idle" /\ nd_rec = <<>> /\ nd_lead = 0 /\ nd_trail = <<>>
    /\ nd_result = NoParse /\ nd_content = None
BadgeIdle ==
    /\ bg_phase = "idle" /\ bg_op = "" /\ bg_apdu = <<>> /\ bg_transmit = <<>>
    /\ bg_result = NoResult

(***************************************************************************)
(* The decoder on its own: parse, then get_content on what it returned.    *)
(***************************************************************************)
NdefInit ==
    /\ MonitorIdle /\ BadgeIdle
    /\ nd_phase = "input"
    /\ nd_rec \in Records
    /\ nd_lead \in 0..MaxPad
    /\ nd_trail \in Trails
    /\ nd_result = NoParse
    /\ nd_content = None

\* NDEF::parse(&buffer)
NdParse ==
    /\ nd_phase = "input"
    /\ nd_result' = parse(NdefBuffer)
    /\ nd_phase' = "parsed"
    /\ UNCHANGED << nd_rec, nd_lead, nd_trail, nd_content >>
    /\ UNCHANGED << monitor_vars, badge_vars >>

\* parsed.get_content(), on an Ok of parse
NdGetContent ==
    /\ nd_phase = "parsed"
    /\ nd_result.ok
    /\ nd_content' = get_content(nd_result)
    /\ nd_phase' = "content"
    /\ UNCHANGED << nd_rec, nd_lead, nd_trail, nd_result >>
    /\ UNCHANGED << monitor_vars, badge_vars >>

NdefNext == NdParse \/ NdGetContent

SpecNdef == NdefInit /\ [][NdefNext]_vars

(***************************************************************************)
(* The card session on its own: one operation on one transmit outcome.     *)
(***************************************************************************)
\* the success trailer and a card error trailer
TrailerOk == <<144, 0>>
TrailerNotFound == <<106, 130>>

\* 0x00 "https://a b?user=7": a host the URL parser refuses
UriBadHost == <<0, 104, 116, 116, 112, 115, 58, 47, 47, 97, 32, 98, 63, 117, 115, 101, 114, 61, 55>>
\* 0x04 "1.2.3.256?user=1": a host that ends in a number and is no IPv4 address
UriBadIpv4 == <<4, 49, 46, 50, 46, 51, 46, 50, 53, 54, 63, 117, 115, 101, 114, 61, 49>>
\* 0x04 "a.b?u\nser=7" with a line feed inside, which the URL parser skips
UriNewline == <<4, 97, 46, 98, 63, 117, 10, 115, 101, 114, 61, 55>>
\* 0x04 "a.b?user=%37": a percent escape in the value
UriEscaped == <<4, 97, 46, 98, 63, 117, 115, 101, 114, 61, 37, 51, 55>>
\* 0x04 "é.b?us%65r=1&user=7": a host that is not ASCII, a key that only decodes
\* to "user" and then a key "user"
UriIdna == <<4, 195, 169, 46, 98, 63, 117, 115, 37, 54, 53, 114, 61, 49, 38, 117, 115, 101, 114, 61, 55>>
\* 0x00 "x://@/p?user=1": an '@' with neither credentials nor host
UriEmptyAt == <<0, 120, 58, 47, 47, 64, 47, 112, 63, 117, 115, 101, 114, 61, 49>>

\* what the card answers after the status trailer is taken off: echo and dump
BadgeRecords ==
    { [pre |-> pre, hdr |-> HeaderD1, type |-> ty, payload |-> pl] :
        pre \in Preambles, ty \in {TypeText, TypeUri},
        pl \in { UriLive, UriShort, UriNoUser, TextHello, TextUrl,
                 <<35, 120>>, <<4, 101, 110, 104>>, <<4, 195>>,
                 UriBadHost, UriBadIpv4, UriNewline, UriEscaped, UriIdna,
                 UriEmptyAt } }
    \cup { [pre |-> <<>>, hdr |-> 193, type |-> TypeUri, payload |-> UriShort] }
Echoes == { Echo, <<213, 67, 1>>, <<213, 67>>, <<>> }
CardAnswers ==
    { e \o Layout(r) \o t : e \in Echoes, r \in BadgeRecords, t \in { <<>>, TestTrail } }

Responses ==
    SeqsUpTo({0, 106, 130, 144}, MaxRaw)
    \cup { a \o t : a \in CardAnswers, t \in { TrailerOk, TrailerNotFound } }
    \cup { Echo \o TrailerOk, <<213, 67>> \o TrailerOk }

Transmits ==
    { TransmitErr(e) : e \in { "NoSmartcard", "ResetCard" } }
    \cup { TransmitOk(r) : r \in Responses }

BadgeInit ==
    /\ MonitorIdle /\ NdefIdle
    /\ bg_phase = "input"
    /\ bg_op = ""
    /\ bg_apdu = <<>>
    /\ bg_transmit \in Transmits
    /\ bg_result = NoResult

\* badge.send_data(&apdu)
BgSendData ==
    /\ bg_phase = "input"
    /\ bg_op' = "send_data"
    /\ bg_apdu' \in { FastReadApdu, BuzzerApdu(TRUE), BuzzerApdu(FALSE) }
    /\ bg_result' = send_data(bg_transmit)
    /\ bg_phase' = "done"
    /\ UNCHANGED << bg_transmit, monitor_vars, ndef_vars >>

\* badge.get_user_id()
BgGetUserId ==
    /\ bg_phase = "input"
    /\ bg_op' = "get_user_id"
    /\ bg_apdu' = FastReadApdu
    /\ \E idna \in BOOLEAN : bg_result' = get_user_id(bg_transmit, idna)
    /\ bg_phase' = "done"
    /\ UNCHANGED << bg_transmit, monitor_vars, ndef_vars >>

\* badge.set_buzzer(enabled)
BgSetBuzzer ==
    /\ bg_phase = "input"
    /\ \E enabled \in BOOLEAN :
          /\ bg_op' = "set_buzzer"
          /\ bg_apdu' = BuzzerApdu(enabled)
          /\ bg_result' = set_buzzer(enabled, bg_transmit)
    /\ bg_phase' = "done"
    /\ UNCHANGED << bg_transmit, monitor_vars, ndef_vars >>

BadgeNext == BgSendData \/ BgGetUserId \/ BgSetBuzzer

SpecBadge == BadgeInit /\ [][BadgeNext]_vars

(***************************************************************************)
(* Properties of the decoder (SpecNdef).                                   *)
(***************************************************************************)
NdParsed == nd_phase \in {"parsed", "content"}

\* the record type a type byte stands for
TypeName(ty) == IF ty = TypeText THEN "Text" ELSE IF ty = TypeUri THEN "URI" ELSE "Unknown"

\* rec is one short well-known Text or URI record
SingleRecord(rec) == rec.hdr = HeaderD1 /\ rec.type \in {TypeText, TypeUri}

\* the decoder reads buffer b as the record rec
Decodes(b, rec) ==
    parse(b) = [ok |-> TRUE, err |-> "", ndef_type |-> TypeName(rec.type),
                data |-> rec.payload]

\* two results of parse are Ok with the same record type and the same data
SameRecord(a, b) == a.ok /\ b.ok /\ a.ndef_type = b.ndef_type /\ a.data = b.data

\* t holds a byte 0x03 followed two positions later by 0xD1
StartsMessage(t) == \E j \in 1..Len(t) : t[j] = 3 /\ j + 2 <= Len(t) /\ t[j + 2] = 209

\* C4: a buffer holding an NDEF message TLV whose record header byte has the
\* SR bit (bit 4) cleared makes NDEF::parse return Err, never Ok.
C4_HeaderValidation ==
    (NdParsed /\ BitAnd(nd_rec.hdr, 4) = 0) => ~nd_result.ok

\* C5: for a valid single-record buffer B and any number k of leading 0x00
\* bytes, parse of the padded buffer gives the record type and data of parse(B).
C5_LeadingPadding ==
    (NdParsed /\ nd_trail = <<>> /\ SingleRecord(nd_rec)
        /\ Decodes(Layout(nd_rec), nd_rec))
    => SameRecord(nd_result, parse(Layout(nd_rec)))

\* C6 as claimed: for a valid single-record buffer B ending in 0xFE and any
\* bytes T, parse of B followed by T gives the record type and data of parse(B).
C6_TrailingBytes_Any ==
    (NdParsed /\ SingleRecord(nd_rec)
        /\ Decodes(Zeros(nd_lead) \o Layout(nd_rec), nd_rec))
    => SameRecord(nd_result, parse(Zeros(nd_lead) \o Layout(nd_rec)))

\* C6 amended: for a valid single-record buffer B ending in 0xFE and any bytes
\* T that hold no 0x03 followed two positions later by 0xD1, parse of B followed
\* by T gives the record type and data of parse(B).
C6_TrailingBytes ==
    (NdParsed /\ SingleRecord(nd_rec) /\ ~StartsMessage(nd_trail)
        /\ Decodes(Zeros(nd_lead) \o Layout(nd_rec), nd_rec))
    => SameRecord(nd_result, parse(Zeros(nd_lead) \o Layout(nd_rec)))

\* the first dump of tests::parse_uri has been parsed: the record after the lock
\* control TLV, followed by 77 bytes of padding, and the data is the payload
C6_Witness ==
    /\ nd_phase = "parsed"
    /\ nd_rec = [pre |-> LockTlv, hdr |-> HeaderD1, type |-> TypeUri, payload |-> UriLive]
    /\ nd_lead = 0
    /\ nd_trail = TestTrail
    /\ nd_result.ok /\ nd_result.ndef_type = "URI" /\ nd_result.data = UriLive

\* the prefixes the URI claim names: "http://www.", "https://", "mailto:",
\* "urn:nfc:", and nothing for the codes above 0x23
ClaimedPrefix(c) ==
    CASE c = 1  -> <<104, 116, 116, 112, 58, 47, 47, 119, 119, 119, 46>>
      [] c = 4  -> <<104, 116, 116, 112, 115, 58, 47, 47>>
      [] c = 6  -> <<109, 97, 105, 108, 116, 111, 58>>
      [] c = 35 -> <<117, 114, 110, 58, 110, 102, 99, 58>>
      [] OTHER  -> <<>>

\* C7: for a URI record with a payload of at least 2 bytes, code c and UTF-8
\* text s, get_content returns prefix(c) followed by s.
C7_UriContent ==
    (nd_phase = "content" /\ nd_result.ndef_type = "URI" /\ Len(nd_result.data) >= 2
        /\ nd_result.data[1] \in {1, 4, 6, 35} \cup (36..255)
        /\ from_utf8_ok(SliceFrom(nd_result.data, 1)))
    => nd_content = Some(ClaimedPrefix(nd_result.data[1]) \o SliceFrom(nd_result.data, 1))

\* C8: for a Text record get_content returns None on a payload of fewer than 4
\* bytes, and otherwise the UTF-8 decoding of the bytes after the n-byte
\* language code, n being the first payload byte.
C8_TextContent ==
    (nd_phase = "content" /\ nd_result.ndef_type = "Text")
    => IF Len(nd_result.data) < 4 THEN nd_content = None
       ELSE /\ nd_content.tag # "Panic"
            /\ 1 + nd_result.data[1] <= Len(nd_result.data)
                 => LET text == SliceFrom(nd_result.data, 1 + nd_result.data[1])
                    IN  nd_content = IF from_utf8_ok(text) THEN Some(text) ELSE None

\* t is one whole message: the TLV tag, a length, the header 0xD1, type length
\* 1, the payload length, a type byte, that many payload bytes and 0xFE
CompletesRecord(t) ==
    /\ Len(t) >= 7
    /\ t[1] = 3 /\ t[3] = HeaderD1 /\ t[4] = 1
    /\ t[5] = Len(t) - 7
    /\ t[Len(t)] = 254

\* the record of the buffer that was completed last: the one the trailing bytes
\* hold when they are a whole message, the record laid out before them otherwise
LastCompleted ==
    IF CompletesRecord(nd_trail)
    THEN [type |-> nd_trail[6], payload |-> SubSeq(nd_trail, 7, Len(nd_trail) - 1)]
    ELSE [type |-> nd_rec.type, payload |-> nd_rec.payload]

\* C21: the type and the data NDEF::parse returns belong to one and the same
\* record, the most recently completed (0xFE-terminated) record of the buffer,
\* and the data is exactly that record's payload bytes: no header, type or
\* length byte and no terminator.
C21_SingleRetainedRecord ==
    (NdParsed /\ Decodes(Zeros(nd_lead) \o Layout(nd_rec), nd_rec))
    => /\ nd_result.ok
       /\ nd_result.ndef_type = TypeName(LastCompleted.type)
       /\ nd_result.data = LastCompleted.payload

(***************************************************************************)
(* Properties of the card session (SpecBadge).                             *)
(***************************************************************************)
\* C9: on a response of fewer than 2 bytes send_data returns the transport
\* error InvalidValue; otherwise it returns Ok exactly when the last two bytes
\* are 0x90 0x00, with the bytes before them as data and [0x90, 0x00] as status,
\* and for any other trailer the card-status error carrying those two bytes.
C9_SendDataStatus ==
    (bg_phase = "done" /\ bg_op = "send_data" /\ bg_transmit.ok)
    => LET r == bg_transmit.rapdu
           n == Len(r)
       IN  IF n < 2
           THEN bg_result.tag = "Err" /\ bg_result.kind = "PCSC"
                /\ bg_result.msg = "InvalidValue"
           ELSE /\ bg_result.tag = "Ok" <=> (r[n - 1] = 144 /\ r[n] = 0)
                /\ bg_result.tag = "Ok" =>
                      /\ bg_result.bytes = [p \in 1..(n - 2) |-> r[p]]
                      /\ bg_result.status = <<144, 0>>
                /\ bg_result.tag # "Ok" =>
                      /\ bg_result.tag = "Err" /\ bg_result.kind = "Response"
                      /\ bg_result.status = << r[n - 1], r[n] >>

\* send_data has refused a response ending 0x6A 0x82 with exactly those bytes
C9_Witness ==
    /\ bg_phase = "done" /\ bg_op = "send_data" /\ bg_transmit.ok
    /\ Len(bg_transmit.rapdu) > 2
    /\ SubSeq(bg_transmit.rapdu, Len(bg_transmit.rapdu) - 1, Len(bg_transmit.rapdu))
          = TrailerNotFound
    /\ bg_result = ErrResponse(TrailerNotFound)

\* the record get_user_id decodes from an accepted response with the right echo
DecodedRecord == parse(SliceFrom(send_data(bg_transmit).bytes, 3))

\* C10: get_user_id never returns Ok when the record decoded from the tag is
\* not a URI record; a Text record never yields Ok, whatever its text.
C10_OnlyUriContent ==
    (bg_phase = "done" /\ bg_op = "get_user_id"
        /\ send_data(bg_transmit).tag = "Ok"
        /\ Len(send_data(bg_transmit).bytes) >= 3
        /\ SubSeq(send_data(bg_transmit).bytes, 1, 3) = Echo
        /\ DecodedRecord.ok /\ DecodedRecord.ndef_type # "URI")
    => bg_result.tag # "Ok"

\* C11: for every fast-read response that send_data accepts, get_user_id
\* returns the protocol error "Invalid PN532 response" and decodes nothing when
\* the data does not begin with D5 43 00, data of 0, 1 or 2 bytes included; when
\* the data does begin with it, exactly the bytes after those three go to the
\* decoder, so the decoder's error on them is the error returned and the
\* protocol error is not.
C11_EchoValidation ==
    (bg_phase = "done" /\ bg_op = "get_user_id" /\ send_data(bg_transmit).tag = "Ok")
    => LET data == send_data(bg_transmit).bytes
           echoed == Len(data) >= 3 /\ SubSeq(data, 1, 3) = Echo
       IN  /\ ~echoed => bg_result = ErrMessage("Invalid PN532 response")
           /\ echoed =>
                /\ bg_result # ErrMessage("Invalid PN532 response")
                /\ ~DecodedRecord.ok => bg_result = ErrMessage(DecodedRecord.err)

(***************************************************************************)
(* nfc.rs: handle_cards, the monitor thread.                               *)
(* The device subsystem is free: list_readers returns any short list of    *)
(* names or an error, get_status_change reports any state for every        *)
(* watched reader or an error, connect succeeds or fails, and establishing *)
(* a context succeeds or fails.  A reader state is the set of its flags;   *)
(* the baseline that sync_current_state copies is read by the device       *)
(* subsystem only and is not kept.                                         *)
(***************************************************************************)
\* PNP_NOTIFICATION()
PNP == "\\\\?PnP?\\Notification"
\* the names of real readers
ReaderNames == { "ACS ACR122 0", "ACS ACR122 1" }
\* a name with the substring "Windows Hello" (line 54)
HelloNames == { "Windows Hello for Business 1" }
\* a name that is not UTF-8, on which name.to_str().unwrap() panics (line 54)
NonUtf8Names == { "ACS \\xFF" }
ListedNames == ReaderNames \cup HelloNames \cup NonUtf8Names

ContainsWindowsHello(name) == name \in HelloNames
IsUtf8Name(name) == name \notin NonUtf8Names

\* State::UNAWARE is the empty set of flags
UNAWARE == {}
\* the states get_status_change reports for a reader
EventStates ==
    { UNAWARE, {"EMPTY"}, {"PRESENT"}, {"PRESENT", "EMPTY"}, {"UNKNOWN"}, {"IGNORE"} }
\* the states it reports for the plug-and-play pseudo-reader
PnpEventStates == { UNAWARE, {"CHANGED"}, {"UNKNOWN"} }

\* State::intersects
intersects(state, flags) == state \cap flags # {}

\* ReaderState::new(name, State::UNAWARE)
NewReaderState(name) == [name |-> name, event_state |-> UNAWARE]

\* pcsc errors of list_readers and get_status_change: the two the loop recovers
\* from, and one of the others
Recoverable == { "ServiceStopped", "NoService" }
FatalErrors == { "InternalError" }

\* a call of reader_handler(name, attached) or card_handler(card, name, index);
\* CardCall_OneBased counts the position in the watch list from 1
ReaderCall(name, attached) ==
    [fn |-> "reader_handler", name |-> name, attached |-> attached, index |-> 0,
     card |-> ""]
CardCall_OneBased(name, index, card) ==
    [fn |-> "card_handler", name |-> name, attached |-> TRUE, index |-> index + 1,
     card |-> card]
CardCall(name, index, card) ==
    [fn |-> "card_handler", name |-> name, attached |-> TRUE, index |-> index,
     card |-> card]

\* a call ctx.connect(name, ShareMode::Shared, Protocols::ANY) of line 86 and
\* whether it returned a card
Connect(name, ok) == [name |-> name, share_mode |-> "Shared", ok |-> ok]

\* the connections open once connect has returned a card for a reader; a
\* connection is named by the reader it is to
open_card(open, name) == open \cup {name}

\* a card that is kept open after the arm
drop_card_leak(open, card) == open

\* the connections open once `card` has gone out of scope at the end of the Ok
\* arm (lines 87-94): Card::drop disconnects it
drop_card(open, card) == open \ {card}

\* what the card may answer the tap handler's fast read: nothing but the success
\* trailer, a card error, a badge with a user URL, a Text record whose language
\* code length is its whole length; or the transmit fails
TapTransmits ==
    { TransmitOk(TrailerOk),
      TransmitOk(TrailerNotFound),
      TransmitOk(Echo \o Layout([pre |-> LockTlv, hdr |-> HeaderD1, type |-> TypeUri,
                                  payload |-> UriShort]) \o TrailerOk),
      TransmitOk(Echo \o Layout([pre |-> <<>>, hdr |-> HeaderD1, type |-> TypeText,
                                  payload |-> <<4, 101, 110, 104>>]) \o TrailerOk),
      TransmitErr("ResetCard") }

\* sequences of distinct names of length 0..n
RECURSIVE DistinctSeqs(_, _)
DistinctSeqs(S, n) ==
    IF n = 0 THEN { <<>> }
    ELSE LET shorter == DistinctSeqs(S, n - 1)
             longest == { t \in shorter : Len(t) = n - 1 }
         IN  shorter \cup
             UNION { { Append(q, x) : x \in S \ { q[k] : k \in 1..Len(q) } } : q \in longest }

Tracked(rs, name) == \E k \in 1..Len(rs) : rs[k].name = name

\* readers.get(&name).unwrap_or(&false)
get_or_false(map, name) == IF name \in DOMAIN map THEN map[name] ELSE FALSE
\* an insert that forgets the flags of the other names
insert_alone(map, name, value) == [n \in {name} |-> value]
\* readers.insert(name, value)
insert(map, name, value) ==
    [n \in DOMAIN map \cup {name} |-> IF n = name THEN value ELSE map[n]]

\* a test that takes only UNKNOWN for dead
is_invalid_unknown(rs) == intersects(rs.event_state, {"UNKNOWN"})
\* is_invalid (lines 28-30)
is_invalid(rs) == intersects(rs.event_state, {"UNKNOWN", "IGNORE"})
should_keep(rs) == ~is_invalid(rs)

\* the names announced and not reported removed, once the calls `made` of
\* reader_handler(name, true), or of reader_handler(name, false), are made
Attached(names, made) == names \cup { made[k].name : k \in 1..Len(made) }
Detached(names, made) == names \ { made[k].name : k \in 1..Len(made) }

\* the calls reader_handler(name, false) for the entries of a list, in order
RemovalCalls(dead) == [k \in 1..Len(dead) |-> ReaderCall(dead[k].name, FALSE)]

\* the for loop over names (lines 52-58): the watch list and the calls after it,
\* and whether to_str().unwrap() panicked on the way
RECURSIVE AddReaders(_, _, _)
AddReaders(names, rs, made) ==
    IF names = <<>> THEN [reader_states |-> rs, calls |-> made, panicked |-> FALSE]
    ELSE LET name == Head(names) IN
         IF Tracked(rs, name) THEN AddReaders(Tail(names), rs, made)
         ELSE IF ~IsUtf8Name(name)
              THEN [reader_states |-> rs, calls |-> made, panicked |-> TRUE]
         ELSE IF ContainsWindowsHello(name) THEN AddReaders(Tail(names), rs, made)
         ELSE AddReaders(Tail(names), Append(rs, NewReaderState(name)),
                         Append(made, ReaderCall(name, TRUE)))

\* where the thread goes after the entry at position index of a list of length
\* len: on in the for loop of lines 77-101, or back to the top of the loop
AfterEntry(len, index) == IF index + 1 < len THEN "process" ELSE "retain"

\* a debounce test that takes every PRESENT report for a new tap
is_new_tap_always(map, name) == TRUE

\* the debounce test of line 83
is_new_tap(map, name) == ~get_or_false(map, name)

\* the record of the handler calls that PRESENT reports of a name made, and of
\* the names still waiting for their first PRESENT report
NoteReport(name, state, taps) ==
    IF intersects(state, {"PRESENT"}) THEN
        /\ pair_taps' = [pair_taps EXCEPT ![name] =
                            (IF prev_tap[name] = -1 THEN 0 ELSE prev_tap[name]) + taps]
        /\ prev_tap' = [prev_tap EXCEPT ![name] = taps]
        /\ awaiting' = awaiting \ {name}
    ELSE IF intersects(state, {"EMPTY"}) THEN
        /\ pair_taps' = [pair_taps EXCEPT ![name] = 0]
        /\ prev_tap' = [prev_tap EXCEPT ![name] = -1]
        /\ UNCHANGED awaiting
    ELSE UNCHANGED << prev_tap, pair_taps, awaiting >>

MonitorInit ==
    /\ NdefIdle /\ BadgeIdle
    /\ pc = "establish"
    /\ ctx = 0
    /\ reader_states = <<>>
    /\ readers = EmptyMap
    /\ reader_index = 0
    /\ last_error = ""
    /\ panic_msg = ""
    /\ calls = <<>>
    /\ tap_result = "None"
    /\ prev_tap = [n \in ReaderNames |-> -1]
    /\ pair_taps = [n \in ReaderNames |-> 0]
    /\ connects = <<>>
    /\ cards = {}
    /\ listed = <<>>
    /\ awaiting = {}
    /\ announced = {}

\* lines 17-25: the first context, the watch list with the PnP entry, the map
Establish ==
    /\ pc = "establish"
    /\ ctx' = 1
    /\ reader_states' = << NewReaderState(PNP) >>
    /\ readers' = EmptyMap
    /\ pc' = "retain"
    /\ UNCHANGED << reader_index, last_error, panic_msg, calls, tap_result,
                    prev_tap, pair_taps, connects, cards, listed, awaiting, announced,
                    ndef_vars, badge_vars >>

\* line 17: Context::establish fails and expect panics
EstablishFails ==
    /\ pc = "establish"
    /\ pc' = "panicked"
    /\ panic_msg' = "Failed to establish context"
    /\ UNCHANGED << ctx, reader_states, readers, reader_index, last_error, calls,
                    tap_result, prev_tap, pair_taps, connects, cards, listed,
                    awaiting, announced, ndef_vars, badge_vars >>

\* lines 27-38: remove dead readers
RemoveDeadReaders ==
    /\ pc = "retain"
    /\ reader_states' = SelectSeq(reader_states, should_keep)
    /\ calls' = RemovalCalls(SelectSeq(reader_states, is_invalid))
    /\ awaiting' = { n \in awaiting : Tracked(SelectSeq(reader_states, should_keep), n) }
    /\ announced' = Detached(announced, RemovalCalls(SelectSeq(reader_states, is_invalid)))
    /\ tap_result' = "None"
    /\ connects' = <<>>
    /\ pc' = "list"
    /\ UNCHANGED << ctx, readers, reader_index, last_error, panic_msg,
                    prev_tap, pair_taps, cards, listed, ndef_vars, badge_vars >>

\* lines 41-63: list_readers returns names; add the new readers
ListReaders ==
    /\ pc = "list"
    /\ \E names \in DistinctSeqs(ListedNames, MaxListed) :
          LET added == AddReaders(names, reader_states, <<>>) IN
          /\ reader_states' = added.reader_states
          /\ calls' = added.calls
          /\ listed' = names
          /\ awaiting' = awaiting \cup { added.calls[k].name : k \in 1..Len(added.calls) }
          /\ announced' = Attached(announced, added.calls)
          /\ last_error' = "Ok"
          /\ IF added.panicked
             THEN pc' = "panicked" /\ panic_msg' = "reader name is not UTF-8"
             ELSE pc' = "wait" /\ panic_msg' = panic_msg
    /\ UNCHANGED << ctx, readers, reader_index, tap_result, prev_tap, pair_taps,
                    connects, cards, ndef_vars, badge_vars >>

\* the recovery of lines 43-48 and 68-73: a new context and `continue`, or the
\* panic of expect when the context cannot be established
Recover(err, established) ==
    /\ ctx < MaxCtx
    /\ last_error' = err
    /\ calls' = <<>>
    /\ listed' = <<>>
    /\ IF established
       THEN ctx' = ctx + 1 /\ pc' = "retain" /\ panic_msg' = panic_msg
       ELSE ctx' = ctx /\ pc' = "panicked" /\ panic_msg' = "Failed to establish context"
    /\ UNCHANGED << reader_states, readers, reader_index, tap_result, prev_tap,
                    pair_taps, connects, cards, awaiting, announced, ndef_vars, badge_vars >>

\* lines 43-48: list_readers reports ServiceStopped or NoService
ListReadersServiceStopped ==
    /\ pc = "list"
    /\ \E err \in Recoverable, established \in BOOLEAN : Recover(err, established)

\* line 49: any other error of list_readers
ListReadersFails ==
    /\ pc = "list"
    /\ \E err \in FatalErrors : last_error' = err
    /\ pc' = "panicked"
    /\ panic_msg' = "Failed to list readers"
    /\ calls' = <<>>
    /\ listed' = <<>>
    /\ UNCHANGED << ctx, reader_states, readers, reader_index, tap_result, prev_tap,
                    pair_taps, connects, cards, awaiting, announced, ndef_vars, badge_vars >>

\* lines 61-67: get_status_change returns with a state for every watched reader
GetStatusChange ==
    /\ pc = "wait"
    /\ \E reported \in [1..Len(reader_states) -> EventStates \cup PnpEventStates] :
          /\ \A k \in 1..Len(reader_states) :
                reported[k] \in (IF reader_states[k].name = PNP THEN PnpEventStates
                                 ELSE EventStates)
          /\ reader_states' =
                [k \in 1..Len(reader_states) |->
                    [reader_states[k] EXCEPT !.event_state = reported[k]]]
    /\ last_error' = "Ok"
    /\ calls' = <<>>
    /\ listed' = <<>>
    /\ reader_index' = 0
    /\ pc' = IF Len(reader_states) = 0 THEN "retain" ELSE "process"
    /\ UNCHANGED << ctx, readers, panic_msg, tap_result, prev_tap, pair_taps,
                    connects, cards, awaiting, announced, ndef_vars, badge_vars >>

\* lines 68-73: get_status_change reports ServiceStopped or NoService
GetStatusChangeServiceStopped ==
    /\ pc = "wait"
    /\ \E err \in Recoverable, established \in BOOLEAN : Recover(err, established)

\* any other error of get_status_change taken for one to go on after
GetStatusChangeFails_Continue ==
    /\ pc = "wait"
    /\ \E err \in FatalErrors : last_error' = err
    /\ pc' = "retain"
    /\ calls' = <<>>
    /\ listed' = <<>>
    /\ UNCHANGED << ctx, reader_states, readers, reader_index, panic_msg, tap_result,
                    prev_tap, pair_taps, connects, cards, awaiting, announced, ndef_vars,
                    badge_vars >>

\* line 74: any other error of get_status_change
GetStatusChangeFails ==
    /\ pc = "wait"
    /\ \E err \in FatalErrors : last_error' = err
    /\ pc' = "panicked"
    /\ panic_msg' = "Failed to get status change"
    /\ calls' = <<>>
    /\ listed' = <<>>
    /\ UNCHANGED << ctx, reader_states, readers, reader_index, tap_result, prev_tap,
                    pair_taps, connects, cards, awaiting, announced, ndef_vars, badge_vars >>

\* the entry the for loop of lines 77-101 is at
Current == reader_states[reader_index + 1]

\* what every turn of the for loop does when it ends normally
NextEntry ==
    /\ pc' = AfterEntry(Len(reader_states), reader_index)
    /\ reader_index' = reader_index + 1
    /\ UNCHANGED << ctx, reader_states, last_error, panic_msg, listed, announced,
                    ndef_vars, badge_vars >>

\* line 78: the PnP entry is skipped
ProcessPnp ==
    /\ pc = "process"
    /\ Current.name = PNP
    /\ calls' = <<>>
    /\ connects' = <<>>
    /\ NextEntry
    /\ UNCHANGED << readers, tap_result, prev_tap, pair_taps, cards, awaiting >>

\* lines 82-86: a new tap, ctx.connect(name, Shared, ANY) succeeds and the
\* thread enters the Ok arm with the card connection it has just opened
ProcessTap ==
    /\ pc = "process"
    /\ Current.name # PNP
    /\ intersects(Current.event_state, {"PRESENT"})
    /\ is_new_tap(readers, Current.name)
    /\ connects' = << Connect(Current.name, TRUE) >>
    /\ cards' = open_card(cards, Current.name)
    /\ calls' = <<>>
    /\ pc' = "handler"
    /\ UNCHANGED << ctx, reader_states, readers, reader_index, last_error, panic_msg,
                    tap_result, prev_tap, pair_taps, listed, awaiting, announced,
                    ndef_vars, badge_vars >>

\* lines 87-96: the tap handler runs get_user_id on the card and returns, the
\* card goes out of scope at the end of the arm and the flag is set; a panic
\* inside the handler ends the thread, and unwinding drops the card
CardHandler ==
    /\ pc = "handler"
    /\ \E transmit \in TapTransmits, card \in cards, idna \in BOOLEAN :
          /\ calls' = << CardCall(Current.name, reader_index, card) >>
          /\ connects' = <<>>
          /\ cards' = drop_card(cards, card)
          /\ tap_result' = get_user_id(transmit, idna).tag
          /\ NoteReport(Current.name, Current.event_state, 1)
          /\ IF tap_result' = "Panic"
             THEN /\ pc' = "panicked"
                  /\ panic_msg' = "card_handler panicked"
                  /\ UNCHANGED << ctx, reader_states, readers, reader_index, last_error,
                                  listed, announced, ndef_vars, badge_vars >>
             ELSE /\ readers' = insert(readers, Current.name, TRUE)
                  /\ NextEntry

\* a failed connect that leaves the arm before the flag is set
ProcessTapConnectFails_NoFlag ==
    /\ pc = "process"
    /\ Current.name # PNP
    /\ intersects(Current.event_state, {"PRESENT"})
    /\ is_new_tap(readers, Current.name)
    /\ connects' = << Connect(Current.name, FALSE) >>
    /\ calls' = <<>>
    /\ NoteReport(Current.name, Current.event_state, 0)
    /\ NextEntry
    /\ UNCHANGED << readers, tap_result, cards >>

\* lines 82-96: a new tap, connect fails (NoSmartcard or another error)
ProcessTapConnectFails ==
    /\ pc = "process"
    /\ Current.name # PNP
    /\ intersects(Current.event_state, {"PRESENT"})
    /\ is_new_tap(readers, Current.name)
    /\ connects' = << Connect(Current.name, FALSE) >>
    /\ calls' = <<>>
    /\ readers' = insert(readers, Current.name, TRUE)
    /\ NoteReport(Current.name, Current.event_state, 0)
    /\ NextEntry
    /\ UNCHANGED << tap_result, cards >>

\* lines 82-96: PRESENT again, the flag is already true
ProcessDebounced ==
    /\ pc = "process"
    /\ Current.name # PNP
    /\ intersects(Current.event_state, {"PRESENT"})
    /\ ~is_new_tap(readers, Current.name)
    /\ calls' = <<>>
    /\ connects' = <<>>
    /\ readers' = insert(readers, Current.name, TRUE)
    /\ NoteReport(Current.name, Current.event_state, 0)
    /\ NextEntry
    /\ UNCHANGED << tap_result, cards >>

\* lines 98-100: EMPTY and not PRESENT
ProcessEmpty ==
    /\ pc = "process"
    /\ Current.name # PNP
    /\ ~intersects(Current.event_state, {"PRESENT"})
    /\ intersects(Current.event_state, {"EMPTY"})
    /\ calls' = <<>>
    /\ connects' = <<>>
    /\ readers' = insert(readers, Current.name, FALSE)
    /\ NoteReport(Current.name, Current.event_state, 0)
    /\ NextEntry
    /\ UNCHANGED << tap_result, cards >>

\* neither PRESENT nor EMPTY
ProcessOther ==
    /\ pc = "process"
    /\ Current.name # PNP
    /\ ~intersects(Current.event_state, {"PRESENT", "EMPTY"})
    /\ calls' = <<>>
    /\ connects' = <<>>
    /\ NoteReport(Current.name, Current.event_state, 0)
    /\ NextEntry
    /\ UNCHANGED << readers, tap_result, cards >>

Next ==
    \/ Establish
    \/ EstablishFails
    \/ RemoveDeadReaders
    \/ ListReaders
    \/ ListReadersServiceStopped
    \/ ListReadersFails
    \/ GetStatusChange
    \/ GetStatusChangeServiceStopped
    \/ GetStatusChangeFails
    \/ ProcessPnp
    \/ ProcessTap
    \/ CardHandler
    \/ ProcessTapConnectFails
    \/ ProcessDebounced
    \/ ProcessEmpty
    \/ ProcessOther

Spec == MonitorInit /\ [][Next]_vars

(***************************************************************************)
(* Properties of the monitor (Spec).                                       *)
(***************************************************************************)
\* C1: for every reader name, two consecutive state reports that include
\* PRESENT, with no report including EMPTY between them, cause at most one
\* call of the tap handler for that name.
C1_Debounce == \A n \in ReaderNames : pair_taps[n] <= 1

\* a reader was reported PRESENT twice with no EMPTY report between: the first
\* report called the tap handler, the second, just processed, did not
C1_Witness ==
    \E n \in ReaderNames :
        /\ pair_taps[n] = 1 /\ prev_tap[n] = 0
        /\ get_or_false(readers, n)
        /\ pc \in {"process", "retain"} /\ calls = <<>>

\* C2: when list_readers or get_status_change reports ServiceStopped or
\* NoService the thread does not terminate: a new context is established and
\* the thread is back at the top of its loop.
C2_Recovery ==
    last_error \in Recoverable => (pc \in {"retain", "list"} /\ panic_msg = "")

\* C3: whatever bytes the card returns, get_user_id gives the tap handler an Ok
\* or an Err and the thread goes on; no tag content ends the monitor thread.
C3_BadTagNotFatal ==
    /\ tap_result \in {"None", "Ok", "Err"}
    /\ panic_msg # "card_handler panicked"

\* the calls of the tap handler among a sequence of handler calls
CardCalls(made) == SelectSeq(made, LAMBDA c : c.fn = "card_handler")

\* the for loop stands at a watched reader other than PnP whose reported state
\* includes PRESENT and whose presence flag is not true
GenuineTap ==
    /\ pc = "process"
    /\ Current.name # PNP
    /\ "PRESENT" \in Current.event_state
    /\ ~(Current.name \in DOMAIN readers /\ readers[Current.name])

\* C12: when a watched reader other than PnP reports PRESENT and its flag is
\* not true, the monitor makes exactly one connect, in shared mode, to that
\* reader, and if it succeeds the tap handler is called exactly once, with that
\* connection, the reader's name and the 0-based position of the reader's entry
\* in the watch list; connect and the tap handler are called in no other case.
C12_GenuineNewTap ==
    [][ /\ GenuineTap =>
            /\ Len(connects') = 1
            /\ connects'[1].name = Current.name
            /\ connects'[1].share_mode = "Shared"
            /\ connects'[1].ok <=> pc' = "handler"
            /\ connects'[1].ok => cards' = {Current.name}
        /\ ~GenuineTap => (connects' = <<>> /\ pc' # "handler")
        /\ pc = "handler" =>
            /\ Len(connects) = 1 /\ connects[1].ok
            /\ Len(calls') = 1
            /\ calls'[1].fn = "card_handler"
            /\ calls'[1].card = connects[1].name
            /\ calls'[1].name = connects[1].name
            /\ calls'[1].index + 1 \in 1..Len(reader_states)
            /\ reader_states[calls'[1].index + 1].name = calls'[1].name
        /\ pc # "handler" => CardCalls(calls') = <<>>
      ]_vars

\* the tap handler has just been called for the reader at position 2 of the
\* watch list, behind the PnP entry and another reader
C12_Witness ==
    \E n \in ReaderNames :
        /\ Len(calls) = 1 /\ calls[1].fn = "card_handler"
        /\ calls[1].name = n /\ calls[1].index = 2 /\ calls[1].card = n
        /\ Len(reader_states) = 3 /\ reader_states[3].name = n

\* C13: when the connect of a genuine new tap fails, the tap handler is not
\* called, the thread does not terminate, the reader's presence flag is set to
\* true all the same, and the for loop goes on to the readers that remain in
\* the watch list of this iteration.
C13_ConnectFailureLocal ==
    [][ (GenuineTap /\ Len(connects') = 1 /\ ~connects'[1].ok) =>
            /\ CardCalls(calls') = <<>>
            /\ pc' \notin {"handler", "panicked"}
            /\ panic_msg' = ""
            /\ Current.name \in DOMAIN readers' /\ readers'[Current.name]
            /\ reader_states' = reader_states
            /\ reader_index' = reader_index + 1
            /\ pc' = IF reader_index' < Len(reader_states) THEN "process" ELSE "retain"
      ]_vars

\* a connect to the reader at position 1 has just failed: no handler call, the
\* flag of that reader is true and the for loop stands at the reader behind it
C13_Witness ==
    /\ Len(connects) = 1 /\ ~connects[1].ok
    /\ calls = <<>>
    /\ pc = "process" /\ reader_index = 2
    /\ reader_states[2].name = connects[1].name
    /\ get_or_false(readers, connects[1].name)

\* C14: when the state reported for a watched reader other than PnP includes
\* EMPTY and not PRESENT its presence flag is set to false; when it includes
\* neither, the flag is left as it was; and processing one reader never changes
\* the flag of any other reader name.
C14_FlagUpdates ==
    [][ /\ (pc = "process" /\ Current.name # PNP) =>
            LET n == Current.name
                s == Current.event_state
            IN  /\ ("EMPTY" \in s /\ "PRESENT" \notin s) =>
                      (n \in DOMAIN readers' /\ readers'[n] = FALSE)
                /\ ("EMPTY" \notin s /\ "PRESENT" \notin s) => readers' = readers
        /\ pc \in {"process", "handler"} =>
            \A m \in (DOMAIN readers \cup DOMAIN readers') \ {Current.name} :
                /\ m \in DOMAIN readers /\ m \in DOMAIN readers'
                /\ readers'[m] = readers[m]
      ]_vars

\* an EMPTY report has just set the flag of one reader to false while the flag
\* of the other reader is true
C14_Witness ==
    /\ pc \in {"process", "retain"} /\ last_error = "Ok"
    /\ reader_index \in 1..Len(reader_states)
    /\ reader_states[reader_index].event_state = {"EMPTY"}
    /\ reader_states[reader_index].name \in DOMAIN readers
    /\ ~readers[reader_states[reader_index].name]
    /\ \E m \in DOMAIN readers : m # reader_states[reader_index].name /\ readers[m]

\* C15: a reader's presence flag is reset by its removal from the watch list:
\* for a reader (re-)added to the watch list, the first state report that
\* includes PRESENT is a genuine new tap and a connect to the reader is made,
\* even if the flag was true when the reader was removed.
C15_FlagResetByRemoval ==
    [][ (pc = "process" /\ Current.name # PNP /\ Current.name \in awaiting
            /\ "PRESENT" \in Current.event_state)
        => (Len(connects') = 1 /\ connects'[1].name = Current.name)
      ]_vars

\* the positions of the monitor thread inside its loop
LoopPcs == {"retain", "list", "wait", "process", "handler"}

\* C16: in every reachable state of the monitor loop, after any device events,
\* the watch list holds the entry of the PnP pseudo-reader.
C16_PnpAlwaysWatched == pc \in LoopPcs => Tracked(reader_states, PNP)

\* C17: at the start of every iteration exactly the watched readers whose last
\* observed state includes UNKNOWN or IGNORE are removed from the watch list,
\* reader_handler(name, false) is called exactly once for each of them, in the
\* order of the list, and all the other readers stay, in their previous
\* relative order; no other step removes a reader or announces a removal.
C17_DeadReaderRemoval ==
    [][ LET all  == 1..Len(reader_states)
            dead == { k \in all : reader_states[k].event_state
                                      \cap {"UNKNOWN", "IGNORE"} # {} }
            kept == all \ dead
            Nth(S, i) == CHOOSE k \in S : Cardinality({ m \in S : m < k }) = i - 1
        IN  /\ pc = "retain" =>
                /\ Len(reader_states') = Cardinality(kept)
                /\ \A i \in 1..Cardinality(kept) :
                      reader_states'[i] = reader_states[Nth(kept, i)]
                /\ Len(calls') = Cardinality(dead)
                /\ \A i \in 1..Cardinality(dead) :
                      /\ calls'[i].fn = "reader_handler"
                      /\ calls'[i].name = reader_states[Nth(dead, i)].name
                      /\ calls'[i].attached = FALSE
            /\ pc # "retain" =>
                /\ Len(reader_states') >= Len(reader_states)
                /\ \A k \in all : reader_states'[k].name = reader_states[k].name
                /\ \A i \in 1..Len(calls') :
                      calls'[i].fn = "reader_handler" => calls'[i].attached
      ]_vars

\* the first of two readers has just been removed and announced as detached;
\* the PnP entry and the second reader are left, in that order
C17_Witness ==
    /\ pc = "list"
    /\ calls = << ReaderCall("ACS ACR122 0", FALSE) >>
    /\ Len(reader_states) = 2
    /\ reader_states[1].name = PNP
    /\ reader_states[2].name = "ACS ACR122 1"

\* C18: after the enumerate step (list_readers has returned the names), every
\* enumerated name that was not tracked and does not contain "Windows Hello"
\* has been appended to the watch list with state UNAWARE and announced with
\* (name, true) exactly once, in the order enumerated; names already tracked or
\* filtered are neither added nor announced; no other step announces an
\* attachment; and so the watch list never holds two entries of one name nor
\* an entry of a filtered name.  Stated for the listed names that are UTF-8
\* only, which asks less.  The code breaks it: a listed name that is not UTF-8
\* makes to_str().unwrap() (line 54) panic in the middle of the loop, and the
\* names listed after it are neither appended nor announced.
C18_ReaderDiscovery ==
    /\ [](/\ \A j, k \in 1..Len(reader_states) :
                reader_states[j].name = reader_states[k].name => j = k
          /\ \A k \in 1..Len(reader_states) : reader_states[k].name \notin HelloNames)
    /\ [][ /\ (pc = "list" /\ last_error' = "Ok") =>
               LET known(n) == \E k \in 1..Len(reader_states) : reader_states[k].name = n
                   fresh == SelectSeq(listed', LAMBDA n : /\ ~known(n) /\ n \notin HelloNames
                                                          /\ n \notin NonUtf8Names)
               IN  /\ reader_states' = reader_states \o
                         [k \in 1..Len(fresh) |-> [name |-> fresh[k], event_state |-> {}]]
                   /\ Len(calls') = Len(fresh)
                   /\ \A k \in 1..Len(fresh) :
                         /\ calls'[k].fn = "reader_handler"
                         /\ calls'[k].name = fresh[k]
                         /\ calls'[k].attached
           /\ pc # "list" =>
               \A i \in 1..Len(calls') :
                   calls'[i].fn = "reader_handler" => ~calls'[i].attached
         ]_vars

\* C19: an error of enumerate or wait other than ServiceStopped and NoService
\* terminates the monitor thread, and once the thread has terminated it takes
\* no step any more, so no handler is called again.
C19_FatalErrors ==
    /\ [](last_error \in FatalErrors =>
            (pc = "panicked" /\ calls = <<>> /\ connects = <<>> /\ cards = {}
                /\ panic_msg \in {"Failed to list readers", "Failed to get status change"}))
    /\ [][pc # "panicked"]_vars

\* the thread has terminated on an error of get_status_change while it was
\* watching a reader
C19_Witness ==
    /\ pc = "panicked"
    /\ last_error \in FatalErrors
    /\ panic_msg = "Failed to get status change"
    /\ \E k \in 1..Len(reader_states) : reader_states[k].name \in ReaderNames

\* C20: at most one card connection is open at any time; a connection is open
\* only while the tap handler runs and is released as soon as the handler
\* returns, so none is open while the monitor enumerates readers or waits for
\* a state change; and each call of the tap handler receives the connection
\* that the connect of that tap has just opened, none being open before it.
C20_ConnectionLifetime ==
    /\ [](/\ Cardinality(cards) <= 1
          /\ cards # {} => pc = "handler"
          /\ pc \in {"retain", "list", "wait", "process", "panicked"} => cards = {})
    /\ [][ /\ pc' = "handler" =>
               /\ cards = {}
               /\ Len(connects') = 1 /\ connects'[1].ok
               /\ cards' = {connects'[1].name}
           /\ pc = "handler" =>
               /\ Len(connects) = 1 /\ cards = {connects[1].name}
               /\ Len(calls') = 1 /\ calls'[1].card \in cards
               /\ cards' = {}
           /\ Len(CardCalls(calls')) > 0 => pc = "handler"
         ]_vars

\* the tap handler has returned from a tap, the card handed to it is closed
\* and the thread is back in its loop
C20_Witness ==
    \E n \in ReaderNames :
        /\ Len(calls) = 1 /\ calls[1].fn = "card_handler" /\ calls[1].card = n
        /\ cards = {}
        /\ pc \in {"process", "retain"}
        /\ prev_tap[n] = 1 /\ pair_taps[n] = 1
        /\ tap_result \in {"Ok", "Err"}

\* the calls of the reader-lifecycle handler among a sequence of handler calls
ReaderCalls(made) == SelectSeq(made, LAMBDA c : c.fn = "reader_handler")

\* C22: for every reader name the calls of the reader-lifecycle handler
\* alternate, starting with (name, true): (name, false) is issued only for a
\* name that was announced with (name, true) and not reported removed since,
\* and (name, true) only for a name that is not in that position.
C22_LifecyclePaired ==
    [][ LET made == ReaderCalls(calls') IN
        /\ \A i, j \in 1..Len(made) : made[i].name = made[j].name => i = j
        /\ \A i \in 1..Len(made) :
              IF made[i].attached
              THEN made[i].name \notin announced
              ELSE made[i].name \in announced
      ]_vars

====
